---- MODULE Spec2Model ----
(***************************************************************************)
(* Model of smriprep/interfaces/gifti.py: the MetricMath interface (an     *)
(* in-process transform of the first data array of a GIFTI image) and the  *)
(* two wb_command wrappers MetricFillHoles and MetricRemoveIslands.        *)
(*                                                                         *)
(* Strings are sequences of tokens: "lh.roi.shape.gii" is                  *)
(* <<"l","h",".","roi",".","shape",".","gii">>, and a path puts "/" tokens *)
(* between its components.  The separators "/" and "." are always tokens   *)
(* of their own, and a hemisphere prefix is always the two tokens "l","h"  *)
(* or "r","h", so that equal strings are equal sequences.                  *)
(*                                                                         *)
(* The trait declarations (mandatory, exists, argstr, position,            *)
(* name_template, name_source, keep_extension) are read with the meaning   *)
(* the imported nipype base classes give them: validation at assignment,   *)
(* the mandatory check at run(), CommandLine._parse_inputs for the order   *)
(* of the arguments and _filename_from_source/split_filename for the       *)
(* derived output name.                                                    *)
(***************************************************************************)
EXTENDS Integers, Sequences, FiniteSets, TLC

VARIABLES iface, cwd, inputs, fs, fs0, pc, err, rejected, results, cmdline, nreads, nwrites

vars == <<iface, cwd, inputs, fs, fs0, pc, err, rejected, results, cmdline, nreads, nwrites>>

\* Longest data array of an input file.
MaxLen == 2

----------------------------------------------------------------------------
\* Strings

\* nipype's Undefined; str(Undefined) is '<undefined>'.
Undefined == <<"<undefined>">>

isdefined(v) == v # Undefined

\* str.lower(), on the tokens that have an upper case form here.
LowerTok(t) ==
  CASE t = "L" -> "l"
    [] t = "R" -> "r"
    [] t = "NII" -> "nii"
    [] t = "GZ" -> "gz"
    [] OTHER -> t

Lower(s) == [i \in 1..Len(s) |-> LowerTok(s[i])]

\* Index of the last occurrence of token a in s, 0 when there is none.
LastIndexOf(s, a) ==
  LET hits == {i \in 1..Len(s) : s[i] = a}
  IN IF hits = {} THEN 0 ELSE CHOOSE i \in hits : \A j \in hits : j <= i

EndsWith(s, t) ==
  /\ Len(s) >= Len(t)
  /\ SubSeq(s, Len(s) - Len(t) + 1, Len(s)) = t

\* os.path.join(a, b)
OsPathJoin(a, b) ==
  IF Len(b) > 0 /\ b[1] = "/" THEN b
  ELSE IF Len(a) = 0 \/ a[Len(a)] = "/" THEN a \o b
  ELSE a \o <<"/">> \o b

\* os.path.basename(p)
Basename(p) == SubSeq(p, LastIndexOf(p, "/") + 1, Len(p))

\* os.path.splitext on a base name: <<root, ext>>.  The extension starts at
\* the last dot, unless only dots precede it.
Splitext(n) ==
  LET i == LastIndexOf(n, ".")
  IN IF i = 0 \/ (\A j \in 1..i : n[j] = ".")
     THEN <<n, <<>>>>
     ELSE <<SubSeq(n, 1, i - 1), SubSeq(n, i, Len(n))>>

\* nipype.utils.filemanip.split_filename's compound extensions.
special_extensions ==
  << <<".", "nii", ".", "gz">>, <<".", "tar", ".", "gz">>, <<".", "niml", ".", "dset">> >>

\* split_filename(fname): <<base, ext>> of the base name (the directory is
\* dropped by every caller here).
split_filename(fname) ==
  LET n == Basename(fname)
      hit == {k \in 1..Len(special_extensions) :
                /\ Len(n) > Len(special_extensions[k])
                /\ EndsWith(Lower(n), special_extensions[k])}
  IN IF hit # {}
     THEN LET k == CHOOSE k \in hit : \A j \in hit : k <= j
              l == Len(special_extensions[k])
          IN <<SubSeq(n, 1, Len(n) - l), SubSeq(n, Len(n) - l + 1, Len(n))>>
     ELSE Splitext(n)

----------------------------------------------------------------------------
\* Trait declarations

NoTemplate == <<>>
NoArgstr == <<>>
NoPosition == <<>>

Trait(kind, values, mandatory, exists, argstr, position, template, source, keepext) ==
  [kind |-> kind, values |-> values, mandatory |-> mandatory, exists |-> exists,
   argstr |-> argstr, position |-> position, name_template |-> template,
   name_source |-> source, keep_extension |-> keepext]

Str == Trait("Str", {}, FALSE, FALSE, NoArgstr, NoPosition, NoTemplate, "", FALSE)

\* Mutant: the Enum lists an operation _run_interface has no branch for.
MetricMathInputSpec_ExtraOperation ==
  [subject_id  |-> Str,
   hemisphere  |-> Trait("Enum", {<<"L">>, <<"R">>}, TRUE, FALSE,
                         NoArgstr, NoPosition, NoTemplate, "", FALSE),
   metric      |-> Str,
   metric_file |-> Trait("File", {}, TRUE, TRUE,
                         NoArgstr, NoPosition, NoTemplate, "", FALSE),
   operation   |-> Trait("Enum", {<<"invert">>, <<"abs">>, <<"bin">>, <<"sqrt">>},
                         TRUE, FALSE, NoArgstr, NoPosition, NoTemplate, "", FALSE)]

MetricMathInputSpec ==
  [subject_id  |-> Str,
   hemisphere  |-> Trait("Enum", {<<"L">>, <<"R">>}, TRUE, FALSE,
                         NoArgstr, NoPosition, NoTemplate, "", FALSE),
   metric      |-> Str,
   metric_file |-> Trait("File", {}, TRUE, TRUE,
                         NoArgstr, NoPosition, NoTemplate, "", FALSE),
   operation   |-> Trait("Enum", {<<"invert">>, <<"abs">>, <<"bin">>}, TRUE, FALSE,
                         NoArgstr, NoPosition, NoTemplate, "", FALSE)]

\* Mutant: the positions of the surface and of the input metric exchanged.
MetricFillHolesInputSpec_SwappedPositions ==
  [surface_file    |-> Trait("File", {}, TRUE, TRUE, <<"%s">>, <<2>>,
                             NoTemplate, "", FALSE),
   metric_file     |-> Trait("File", {}, TRUE, TRUE, <<"%s">>, <<1>>,
                             NoTemplate, "", FALSE),
   out_file        |-> Trait("File", {}, FALSE, FALSE, <<"%s">>, <<3>>,
                             <<"%s", "_filled", ".", "shape", ".", "gii">>,
                             "metric_file", FALSE),
   corrected_areas |-> Trait("File", {}, FALSE, TRUE, <<"-corrected-areas", "%s">>,
                             NoPosition, NoTemplate, "", FALSE)]

\* An argstr is a sequence of words; the word "%s" is the placeholder.
MetricFillHolesInputSpec ==
  [surface_file    |-> Trait("File", {}, TRUE, TRUE, <<"%s">>, <<1>>,
                             NoTemplate, "", FALSE),
   metric_file     |-> Trait("File", {}, TRUE, TRUE, <<"%s">>, <<2>>,
                             NoTemplate, "", FALSE),
   out_file        |-> Trait("File", {}, FALSE, FALSE, <<"%s">>, <<3>>,
                             <<"%s", "_filled", ".", "shape", ".", "gii">>,
                             "metric_file", FALSE),
   corrected_areas |-> Trait("File", {}, FALSE, TRUE, <<"-corrected-areas", "%s">>,
                             NoPosition, NoTemplate, "", FALSE)]

\* Mutant: metric_file declared without exists=True.
MetricRemoveIslandsInputSpec_NoExistsCheck ==
  [surface_file    |-> Trait("File", {}, TRUE, TRUE, <<"%s">>, <<1>>,
                             NoTemplate, "", FALSE),
   metric_file     |-> Trait("File", {}, TRUE, FALSE, <<"%s">>, <<2>>,
                             NoTemplate, "", FALSE),
   out_file        |-> Trait("File", {}, FALSE, FALSE, <<"%s">>, <<3>>,
                             <<"%s", "_noislands", ".", "shape", ".", "gii">>,
                             "metric_file", FALSE),
   corrected_areas |-> Trait("File", {}, FALSE, TRUE, <<"-corrected-areas", "%s">>,
                             NoPosition, NoTemplate, "", FALSE)]

\* Mutant: the name template copied from MetricFillHoles unchanged.
MetricRemoveIslandsInputSpec_FilledTemplate ==
  [surface_file    |-> Trait("File", {}, TRUE, TRUE, <<"%s">>, <<1>>,
                             NoTemplate, "", FALSE),
   metric_file     |-> Trait("File", {}, TRUE, TRUE, <<"%s">>, <<2>>,
                             NoTemplate, "", FALSE),
   out_file        |-> Trait("File", {}, FALSE, FALSE, <<"%s">>, <<3>>,
                             <<"%s", "_filled", ".", "shape", ".", "gii">>,
                             "metric_file", FALSE),
   corrected_areas |-> Trait("File", {}, FALSE, TRUE, <<"-corrected-areas", "%s">>,
                             NoPosition, NoTemplate, "", FALSE)]

MetricRemoveIslandsInputSpec ==
  [surface_file    |-> Trait("File", {}, TRUE, TRUE, <<"%s">>, <<1>>,
                             NoTemplate, "", FALSE),
   metric_file     |-> Trait("File", {}, TRUE, TRUE, <<"%s">>, <<2>>,
                             NoTemplate, "", FALSE),
   out_file        |-> Trait("File", {}, FALSE, FALSE, <<"%s">>, <<3>>,
                             <<"%s", "_noislands", ".", "shape", ".", "gii">>,
                             "metric_file", FALSE),
   corrected_areas |-> Trait("File", {}, FALSE, TRUE, <<"-corrected-areas", "%s">>,
                             NoPosition, NoTemplate, "", FALSE)]

MetricFillHoles_cmd == <<"wb_command", "-metric-fill-holes">>
MetricRemoveIslands_cmd == <<"wb_command", "-metric-remove-islands">>

Interfaces == {"MetricMath", "MetricFillHoles", "MetricRemoveIslands"}
WBCommands == {"MetricFillHoles", "MetricRemoveIslands"}

input_spec(i) ==
  CASE i = "MetricMath" -> MetricMathInputSpec
    [] i = "MetricFillHoles" -> MetricFillHolesInputSpec
    [] i = "MetricRemoveIslands" -> MetricRemoveIslandsInputSpec

_cmd(i) ==
  CASE i = "MetricFillHoles" -> MetricFillHoles_cmd
    [] i = "MetricRemoveIslands" -> MetricRemoveIslands_cmd

----------------------------------------------------------------------------
\* nipype base classes, as far as the declarations above use them

\* Trait validation, done when a value is assigned to an input.
validate(spec, v, fsys) ==
  CASE spec.kind = "Enum" -> v \in spec.values
    [] spec.kind = "File" -> (spec.exists => v \in DOMAIN fsys)
    [] OTHER -> TRUE

\* BaseInterface._check_mandatory_inputs, the first step of run().
_check_mandatory_inputs(spec, ins) ==
  \A t \in DOMAIN spec : spec[t].mandatory => isdefined(ins[t])

\* template % value: the placeholder token replaced by the value's tokens.
Format(template, value) ==
  LET i == CHOOSE k \in 1..Len(template) : template[k] = "%s"
  IN SubSeq(template, 1, i - 1) \o value \o SubSeq(template, i + 1, Len(template))

HasPlaceholder(s) == \E k \in 1..Len(s) : s[k] = "%s"

_overload_extension(value) == value

\* CommandLine._filename_from_source(name)
_filename_from_source(spec, ins, name) ==
  LET retval == ins[name]
      name_template == IF isdefined(retval) /\ HasPlaceholder(retval)
                       THEN retval ELSE spec[name].name_template
      source == ins[spec[name].name_source]
      split == split_filename(source)
      named == Format(name_template, split[1])
      ext == split_filename(named)[2]
  IN IF isdefined(retval) /\ ~HasPlaceholder(retval) THEN retval
     ELSE IF spec[name].name_template = NoTemplate THEN retval
     ELSE IF ~isdefined(source) THEN retval
     ELSE IF spec[name].keep_extension /\ (ext # <<>> \/ split[2] # <<>>)
          THEN (IF ext = <<>> /\ split[2] # <<>> THEN named \o split[2] ELSE named)
          ELSE _overload_extension(named)

\* The value _parse_inputs formats for an input.
ArgValue(spec, ins, name) ==
  IF spec[name].name_source # "" THEN _filename_from_source(spec, ins, name)
  ELSE ins[name]

\* CommandLine._format_arg: the words of one argument.
_format_arg(spec, name, value) ==
  [k \in 1..Len(spec[name].argstr) |->
     IF spec[name].argstr[k] = "%s" THEN value ELSE <<spec[name].argstr[k]>>]

\* sorted(self.inputs.traits(argstr=...)): the trait names in sorted order.
SortedTraitNames == <<"corrected_areas", "metric_file", "out_file", "surface_file">>

RECURSIVE Unpositioned(_, _, _)
Unpositioned(spec, ins, k) ==
  IF k > Len(SortedTraitNames) THEN <<>>
  ELSE LET name == SortedTraitNames[k]
           it == IF /\ name \in DOMAIN spec
                    /\ spec[name].argstr # NoArgstr
                    /\ spec[name].position = NoPosition
                    /\ isdefined(ArgValue(spec, ins, name))
                 THEN _format_arg(spec, name, ArgValue(spec, ins, name))
                 ELSE <<>>
       IN it \o Unpositioned(spec, ins, k + 1)

RECURSIVE Positioned(_, _, _)
Positioned(spec, ins, names) ==
  IF names = {} THEN <<>>
  ELSE LET first == CHOOSE n \in names :
                      \A m \in names : spec[n].position[1] <= spec[m].position[1]
       IN _format_arg(spec, first, ArgValue(spec, ins, first))
            \o Positioned(spec, ins, names \ {first})

\* CommandLine._parse_inputs: the arguments with a position >= 0 in the order
\* of their positions, then those without a position, then those with a
\* negative position.
_parse_inputs(spec, ins) ==
  LET given == {n \in DOMAIN spec :
                  /\ spec[n].argstr # NoArgstr
                  /\ spec[n].position # NoPosition
                  /\ isdefined(ArgValue(spec, ins, n))}
      initial_args == {n \in given : spec[n].position[1] >= 0}
      final_args == {n \in given : spec[n].position[1] < 0}
  IN Positioned(spec, ins, initial_args)
       \o Unpositioned(spec, ins, 1)
       \o Positioned(spec, ins, final_args)

\* CommandLine.cmdline, as the sequence of its words.
Cmdline(i, ins) ==
  [k \in 1..Len(_cmd(i)) |-> <<_cmd(i)[k]>>] \o _parse_inputs(input_spec(i), ins)

----------------------------------------------------------------------------
\* numpy arrays of the GIFTI data types

DataTypes == {"uint8", "int32", "float32"}

\* The least int32, -2^31.
Int32Min == (0 - 2147483647) - 1

\* The values a stored element takes here: each type's extremes and zero.
Values(dt) ==
  CASE dt = "uint8" -> {0, 3, 255}
    [] dt = "int32" -> {Int32Min, -2, 3}
    [] dt = "float32" -> {-2, 0, 3}

\* -v and |v| in 32-bit two's complement: every value but the least has its
\* negation in range, and the least is its own.
Neg32(v) == IF v = Int32Min THEN Int32Min ELSE 0 - v

\* numpy's unary minus: fixed-width integers wrap around.
np_negative(dt, v) ==
  CASE dt = "uint8" -> (0 - v) % 256
    [] dt = "int32" -> Neg32(v)
    [] OTHER -> 0 - v

\* numpy's abs().
np_absolute(dt, v) ==
  CASE dt = "uint8" -> v
    [] dt = "int32" -> IF v < 0 THEN Neg32(v) ELSE v
    [] OTHER -> IF v < 0 THEN 0 - v ELSE v

\* The local variable `data` when no branch has assigned it.
Unbound == [dtype |-> "unbound", vals |-> <<>>]

\* Mutant: the 'bin' branch without its `datatype = 'uint8'`.
Operate_KeepsDatatype(operation, darray) ==
  CASE operation = <<"abs">> ->
         [data |-> [dtype |-> darray.datatype,
                    vals |-> [k \in 1..Len(darray.data) |->
                                np_absolute(darray.datatype, darray.data[k])]],
          datatype |-> darray.datatype]
    [] operation = <<"invert">> ->
         [data |-> [dtype |-> darray.datatype,
                    vals |-> [k \in 1..Len(darray.data) |->
                                np_negative(darray.datatype, darray.data[k])]],
          datatype |-> darray.datatype]
    [] operation = <<"bin">> ->
         [data |-> [dtype |-> "bool",
                    vals |-> [k \in 1..Len(darray.data) |-> darray.data[k] > 0]],
          datatype |-> darray.datatype]
    [] OTHER -> [data |-> Unbound, datatype |-> darray.datatype]

\* Lines 64-74: the array and the declared datatype the selected operation
\* leaves in `data` and `datatype`.
Operate(operation, darray) ==
  CASE operation = <<"abs">> ->
         [data |-> [dtype |-> darray.datatype,
                    vals |-> [k \in 1..Len(darray.data) |->
                                np_absolute(darray.datatype, darray.data[k])]],
          datatype |-> darray.datatype]
    [] operation = <<"invert">> ->
         [data |-> [dtype |-> darray.datatype,
                    vals |-> [k \in 1..Len(darray.data) |->
                                np_negative(darray.datatype, darray.data[k])]],
          datatype |-> darray.datatype]
    [] operation = <<"bin">> ->
         [data |-> [dtype |-> "bool",
                    vals |-> [k \in 1..Len(darray.data) |-> darray.data[k] > 0]],
          datatype |-> "uint8"]
    [] OTHER -> [data |-> Unbound, datatype |-> darray.datatype]

\* The elements as the written file holds them: the array cast to the
\* declared datatype (a boolean becomes 1 or 0; the other arrays already have
\* the declared type).
Stored(data, datatype) ==
  IF data.dtype = "bool"
  THEN [k \in 1..Len(data.vals) |-> IF data.vals[k] THEN 1 ELSE 0]
  ELSE data.vals

\* Mutant: the two structures exchanged.
AnatomicalStructure_Swapped(hemi) ==
  CASE hemi = <<"L">> -> <<"CortexRight">>
    [] hemi = <<"R">> -> <<"CortexLeft">>

\* Line 58: {'L': 'CortexLeft', 'R': 'CortexRight'}[hemi]
AnatomicalStructure(hemi) ==
  CASE hemi = <<"L">> -> <<"CortexLeft">>
    [] hemi = <<"R">> -> <<"CortexRight">>

\* Line 52-54: the subject of the map name.
Subject(ins) ==
  IF ~isdefined(ins.subject_id) THEN <<"sub-XYZ">> ELSE ins.subject_id

\* Mutant: the lower-case hemisphere of the file name used in the map name.
MapName_LowerHemi(ins) ==
  Subject(ins) \o <<"_">> \o Lower(ins.hemisphere) \o <<"_">> \o ins.metric

\* Line 62: f'{subject}_{hemi}_{metric}'
MapName(ins) ==
  Subject(ins) \o <<"_">> \o ins.hemisphere \o <<"_">> \o ins.metric

\* Mutant: hemi.lower() left out.
OutFilename_NoLower(dir, ins) ==
  OsPathJoin(dir, ins.hemisphere \o <<"h", ".">> \o ins.metric
                    \o <<".", "native", ".", "shape", ".", "gii">>)

\* Mutant: the result written over the input file, as the shell script the
\* interface mirrors does.
OutFilename_InPlace(dir, ins) == ins.metric_file

\* Lines 87-88: the output path.
OutFilename(dir, ins) ==
  OsPathJoin(dir, Lower(ins.hemisphere) \o <<"h", ".">> \o ins.metric
                    \o <<".", "native", ".", "shape", ".", "gii">>)

\* Lines 56-86: the image that is written, from the image that was read.
\* anat is the image's AnatomicalStructurePrimary (<<>> when absent); name,
\* datatype and data belong to darrays[0].
NewImage(img, ins) ==
  LET r == Operate(ins.operation, img)
  IN [anat |-> AnatomicalStructure(ins.hemisphere),
      name |-> MapName(ins),
      datatype |-> r.datatype,
      data |-> Stored(r.data, r.datatype)]

----------------------------------------------------------------------------
\* The files and the values a caller may assign

Cwds == {<<"/", "work">>, <<"/", "scratch">>}

SurfaceFile == <<"/", "data", "/", "l", "h", ".", "midthickness", ".", "surf", ".", "gii">>
RoiFile == <<"/", "data", "/", "l", "h", ".", "roi", ".", "shape", ".", "gii">>
RoiNiiGz == <<"/", "data", "/", "roi", ".", "nii", ".", "gz">>
RoiPlain == <<"/", "data", "/", "roi">>
AreaFile == <<"/", "data", "/", "l", "h", ".", "area", ".", "shape", ".", "gii">>
ThicknessFile == <<"/", "data", "/", "l", "h", ".", "thickness", ".", "gii">>
MissingFile == <<"/", "data", "/", "missing", ".", "gii">>
ExplicitOut == <<"/", "out", "/", "custom", ".", "gii">>

\* A file of an earlier run in the working directory.
EarlierOutput(dir) ==
  OsPathJoin(dir, <<"l", "h", ".", "thickness", ".", "native", ".", "shape", ".", "gii">>)

ExistingFiles(dir) ==
  {SurfaceFile, RoiFile, RoiNiiGz, RoiPlain, AreaFile, ThicknessFile, EarlierOutput(dir)}

Arrays(dt) == UNION {[1..n -> Values(dt)] : n \in 1..MaxLen}

Images ==
  {[anat |-> a, name |-> <<"map">>, datatype |-> dt, data |-> d] :
     a \in {<<>>, <<"CortexRight">>, <<"Cerebellum">>},
     dt \in DataTypes, d \in UNION {Arrays(t) : t \in DataTypes}}

TypedImages == {img \in Images : img.data \in Arrays(img.datatype)}

DefaultImage ==
  [anat |-> <<>>, name |-> <<"map">>, datatype |-> "float32", data |-> <<0>>]

\* The values a caller tries to assign to an input.
Candidates(i, t, dir) ==
  CASE t = "subject_id" -> {<<"sub-01">>}
    [] t = "hemisphere" -> {<<"L">>, <<"R">>, <<"l">>}
    [] t = "metric" -> {<<"thickness">>, <<"sulc">>}
    [] t = "operation" -> {<<"invert">>, <<"abs">>, <<"bin">>, <<"sqrt">>}
    [] t = "metric_file" ->
         IF i = "MetricMath" THEN {ThicknessFile, EarlierOutput(dir), MissingFile}
         ELSE {RoiFile, RoiNiiGz, RoiPlain, MissingFile}
    [] t = "surface_file" -> {SurfaceFile, MissingFile}
    [] t = "out_file" -> {ExplicitOut}
    [] t = "corrected_areas" -> {AreaFile, MissingFile}

NoResults == [metric_file |-> Undefined, out_file |-> Undefined]

----------------------------------------------------------------------------
\* The state machine: an interface is instantiated, its inputs are assigned
\* one by one, and it is run.

Init ==
  /\ iface \in Interfaces
  /\ cwd \in Cwds
  /\ \E img \in (IF iface = "MetricMath" THEN TypedImages ELSE {DefaultImage}) :
       fs = [p \in ExistingFiles(cwd) |-> img]
  /\ fs0 = fs
  /\ inputs = [t \in DOMAIN input_spec(iface) |-> Undefined]
  /\ pc = "config"
  /\ err = "none"
  /\ rejected = <<>>
  /\ results = NoResults
  /\ cmdline = <<>>
  /\ nreads = 0
  /\ nwrites = 0

\* interface.inputs.<t> = v: the trait validates the value; a value it
\* rejects raises TraitError (which names the input and the value) and the
\* input keeps its value.
SetInput(t, v) ==
  /\ pc = "config"
  /\ IF validate(input_spec(iface)[t], v, fs)
     THEN /\ inputs' = [inputs EXCEPT ![t] = v]
          /\ UNCHANGED <<pc, err, rejected>>
     ELSE /\ pc' = "failed"
          /\ err' = "TraitError"
          /\ rejected' = <<t, v>>
          /\ UNCHANGED inputs
  /\ UNCHANGED <<iface, cwd, fs, fs0, results, cmdline, nreads, nwrites>>

\* run() with a mandatory input undefined: ValueError, nothing else happens.
RunMissingMandatory ==
  /\ pc = "config"
  /\ ~_check_mandatory_inputs(input_spec(iface), inputs)
  /\ pc' = "failed"
  /\ err' = "ValueError"
  /\ UNCHANGED <<iface, cwd, inputs, fs, fs0, rejected, results, cmdline, nreads, nwrites>>

\* MetricMath._run_interface
RunMetricMath ==
  /\ pc = "config"
  /\ iface = "MetricMath"
  /\ _check_mandatory_inputs(input_spec(iface), inputs)
  /\ nreads' = nreads + 1
  /\ IF Operate(inputs.operation, fs[inputs.metric_file]).data = Unbound
     THEN \* line 77 reads `data`, which no branch has bound
          /\ pc' = "failed"
          /\ err' = "UnboundLocalError"
          /\ UNCHANGED <<fs, results, nwrites>>
     ELSE /\ fs' = (OutFilename(cwd, inputs) :> NewImage(fs[inputs.metric_file], inputs)) @@ fs
          /\ nwrites' = nwrites + 1
          /\ results' = [results EXCEPT !.metric_file = OutFilename(cwd, inputs)]
          /\ pc' = "done"
          /\ UNCHANGED err
  /\ UNCHANGED <<iface, cwd, inputs, fs0, rejected, cmdline>>

\* WBCommand run(): the command line is built and the subprocess is spawned.
RunWBCommand ==
  /\ pc = "config"
  /\ iface \in WBCommands
  /\ _check_mandatory_inputs(input_spec(iface), inputs)
  /\ cmdline' = Cmdline(iface, inputs)
  /\ pc' = "spawned"
  /\ UNCHANGED <<iface, cwd, inputs, fs, fs0, err, rejected, results, nreads, nwrites>>

\* The subprocess exits: with 0 the output it wrote is the result, with
\* anything else the run fails.
ProcessExit(rc) ==
  /\ pc = "spawned"
  /\ IF rc = 0
     THEN LET out == OsPathJoin(cwd, _filename_from_source(input_spec(iface), inputs, "out_file"))
          IN /\ fs' = (out :> DefaultImage) @@ fs
             /\ results' = [results EXCEPT !.out_file = out]
             /\ pc' = "done"
             /\ UNCHANGED err
     ELSE /\ pc' = "failed"
          /\ err' = "RuntimeError"
          /\ UNCHANGED <<fs, results>>
  /\ UNCHANGED <<iface, cwd, inputs, fs0, rejected, cmdline, nreads, nwrites>>

Next ==
  \/ \E t \in DOMAIN inputs : \E v \in Candidates(iface, t, cwd) : SetInput(t, v)
  \/ RunMissingMandatory
  \/ RunMetricMath
  \/ RunWBCommand
  \/ \E rc \in {0, 1} : ProcessExit(rc)

Spec == Init /\ [][Next]_vars

----------------------------------------------------------------------------
\* Properties

RecognizedOperations == {<<"invert">>, <<"abs">>, <<"bin">>}

MathDone == iface = "MetricMath" /\ pc = "done"

\* The image MetricMath read (the input file before the run) and the image
\* at the path it reports.
ReadImage == fs0[inputs.metric_file]
WrittenImage == fs[results.metric_file]

\* <cwd>/<hemisphere-lowercase>h.<metric>.native.shape.gii, spelled out.
NativeShapePath ==
  cwd \o <<"/">> \o (IF inputs.hemisphere = <<"L">> THEN <<"l">> ELSE <<"r">>)
      \o <<"h", ".">> \o inputs.metric \o <<".", "native", ".", "shape", ".", "gii">>

\* w = -v.  The negation of the least int32 is 2^31, which no stored element
\* equals (and which is beyond the 32-bit integers TLC computes with).
IsNegation(w, v) == v # Int32Min /\ w = 0 - v

\* C1 (as claimed): after a successful MetricMath run every element of the
\* first data array is the mathematical negation ('invert'), the absolute
\* value ('abs') or the 0/1 mask "greater than zero" ('bin') of the element
\* read from the input, for every input array.
C1_ElementwiseResult ==
  MathDone =>
    /\ Len(WrittenImage.data) = Len(ReadImage.data)
    /\ \A k \in 1..Len(ReadImage.data) :
         LET v == ReadImage.data[k]
             w == WrittenImage.data[k]
         IN CASE inputs.operation = <<"invert">> -> IsNegation(w, v)
              [] inputs.operation = <<"abs">> -> (IF v < 0 THEN IsNegation(w, v) ELSE w = v)
              [] inputs.operation = <<"bin">> -> w = (IF v > 0 THEN 1 ELSE 0)

\* The words of a spawned wrapper's command line.
Spawned == iface \in WBCommands /\ cmdline # <<>>
FixedSubcommand ==
  IF iface = "MetricFillHoles"
  THEN << <<"wb_command">>, <<"-metric-fill-holes">> >>
  ELSE << <<"wb_command">>, <<"-metric-remove-islands">> >>
OutputWord == _filename_from_source(input_spec(iface), inputs, "out_file")

\* C2 (as claimed): the command line is the fixed subcommand followed by
\* <surface> <metric-in> [-corrected-areas <area-metric>] <metric-out>.
C2_OptionBeforeOutput ==
  Spawned =>
    cmdline = FixedSubcommand \o <<inputs.surface_file, inputs.metric_file>>
                \o (IF isdefined(inputs.corrected_areas)
                    THEN << <<"-corrected-areas">>, inputs.corrected_areas >>
                    ELSE <<>>)
                \o <<OutputWord>>

\* C2 (amended): the command line is the fixed subcommand followed by
\* <surface> <metric-in> <metric-out> [-corrected-areas <area-metric>]: the
\* surface precedes the input metric, both precede the output path, and the
\* '-corrected-areas <area-metric>' pair, when set, follows the output path.
C2_OptionAfterOutput ==
  Spawned =>
    cmdline = FixedSubcommand
                \o <<inputs.surface_file, inputs.metric_file, OutputWord>>
                \o (IF isdefined(inputs.corrected_areas)
                    THEN << <<"-corrected-areas">>, inputs.corrected_areas >>
                    ELSE <<>>)

C2_Witness ==
  /\ Spawned
  /\ iface = "MetricFillHoles"
  /\ inputs.corrected_areas = AreaFile
  /\ Len(cmdline) = 7
  /\ cmdline[5] = OutputWord
  /\ cmdline[6] = <<"-corrected-areas">>

\* C3: a wrapper's subprocess is spawned only with surface_file and
\* metric_file set to files that exist and corrected_areas unset or an
\* existing file; an assignment of a missing file and a run with a mandatory
\* input unset both fail without any subprocess being spawned.
C3_ValidationBeforeSpawn ==
  iface \in WBCommands =>
    /\ Spawned =>
         /\ isdefined(inputs.surface_file) /\ inputs.surface_file \in DOMAIN fs0
         /\ isdefined(inputs.metric_file) /\ inputs.metric_file \in DOMAIN fs0
         /\ isdefined(inputs.corrected_areas) => inputs.corrected_areas \in DOMAIN fs0
    /\ rejected # <<>> => pc = "failed" /\ err = "TraitError" /\ ~Spawned
    /\ err = "ValueError" => pc = "failed" /\ ~Spawned
    /\ \A t \in {"surface_file", "metric_file", "corrected_areas"} :
         inputs[t] # MissingFile

C3_Witness ==
  /\ iface = "MetricRemoveIslands"
  /\ rejected = <<"metric_file", MissingFile>>
  /\ inputs.surface_file = SurfaceFile
  /\ pc = "failed"
  /\ cmdline = <<>>

\* C4: an unrecognized operation is refused when it is assigned: the
\* invocation fails with TraitError, the input never holds the value, no
\* file is written and no 'metric_file' result is recorded.
C4_UnrecognizedOperationFails ==
  iface = "MetricMath" =>
    /\ inputs.operation \in RecognizedOperations \cup {Undefined}
    /\ (Len(rejected) = 2 /\ rejected[1] = "operation") =>
         /\ rejected[2] \notin RecognizedOperations
         /\ pc = "failed"
         /\ err = "TraitError"
         /\ nwrites = 0
         /\ fs = fs0
         /\ results.metric_file = Undefined
    /\ err # "UnboundLocalError"

C4_Witness ==
  /\ iface = "MetricMath"
  /\ rejected = <<"operation", <<"sqrt">>>>
  /\ inputs.hemisphere = <<"L">>
  /\ inputs.metric_file = ThicknessFile
  /\ pc = "failed"
  /\ nwrites = 0

\* The file name without its directory and without its final extension.
StripFinalExtension(path) ==
  LET n == SubSeq(path, LastIndexOf(path, "/") + 1, Len(path))
      i == LastIndexOf(n, ".")
  IN IF i = 0 THEN n ELSE SubSeq(n, 1, i - 1)

\* The same, with a trailing .nii.gz, .tar.gz or .niml.dset counted as one
\* extension.
StripExtension(path) ==
  LET n == SubSeq(path, LastIndexOf(path, "/") + 1, Len(path))
      e == IF Len(n) >= 4 THEN SubSeq(n, Len(n) - 3, Len(n)) ELSE <<>>
  IN IF Len(n) > 4 /\ e \in {<<".", "nii", ".", "gz">>, <<".", "tar", ".", "gz">>,
                              <<".", "niml", ".", "dset">>}
     THEN SubSeq(n, 1, Len(n) - 4)
     ELSE StripFinalExtension(path)

WrapperSuffix ==
  IF iface = "MetricFillHoles"
  THEN <<"_filled", ".", "shape", ".", "gii">>
  ELSE <<"_noislands", ".", "shape", ".", "gii">>

\* C5 (as claimed): with out_file unset, the output name is the input
\* metric_file's name without its directory and its final extension,
\* followed by '_filled.shape.gii' (MetricFillHoles) or
\* '_noislands.shape.gii' (MetricRemoveIslands).
C5_FinalExtensionRemoved ==
  (Spawned /\ ~isdefined(inputs.out_file)) =>
    cmdline[5] = StripFinalExtension(inputs.metric_file) \o WrapperSuffix

\* C5 (amended): the same, where a name that ends in .nii.gz, .tar.gz or
\* .niml.dset loses that whole compound extension, not only its last part.
C5_ExtensionRemoved ==
  (Spawned /\ ~isdefined(inputs.out_file)) =>
    /\ cmdline[5] = StripExtension(inputs.metric_file) \o WrapperSuffix
    /\ inputs.metric_file = RoiFile =>
         cmdline[5] = <<"l", "h", ".", "roi", ".", "shape">> \o WrapperSuffix
    /\ inputs.metric_file = RoiNiiGz => cmdline[5] = <<"roi">> \o WrapperSuffix

C5_Witness ==
  /\ Spawned
  /\ iface = "MetricRemoveIslands"
  /\ ~isdefined(inputs.out_file)
  /\ inputs.metric_file = RoiNiiGz
  /\ cmdline[5] = <<"roi", "_noislands", ".", "shape", ".", "gii">>

\* C6: a successful MetricMath run writes exactly one file, at
\* <cwd>/<hemisphere-lowercase>h.<metric>.native.shape.gii, and reports that
\* path as 'metric_file'; the path is built from the working directory, the
\* hemisphere and the metric alone.
C6_OutputPath ==
  MathDone =>
    /\ results.metric_file = NativeShapePath
    /\ nwrites = 1
    /\ DOMAIN fs = DOMAIN fs0 \cup {NativeShapePath}
    /\ \A p \in DOMAIN fs0 \ {NativeShapePath} : fs[p] = fs0[p]

C6_Witness ==
  /\ MathDone
  /\ inputs.hemisphere = <<"L">>
  /\ inputs.metric = <<"thickness">>
  /\ inputs.subject_id = <<"sub-01">>
  /\ inputs.metric_file = ThicknessFile
  /\ results.metric_file = cwd \o <<"/", "l", "h", ".", "thickness", ".", "native",
                                    ".", "shape", ".", "gii">>

\* C7: after 'bin' the first data array's datatype is uint8 whatever the
\* input's was; after 'invert' or 'abs' it is the input array's datatype.
C7_Datatype ==
  MathDone =>
    WrittenImage.datatype =
      IF inputs.operation = <<"bin">> THEN "uint8" ELSE ReadImage.datatype

C7_Witness ==
  /\ MathDone
  /\ inputs.operation = <<"bin">>
  /\ ReadImage.datatype = "float32"
  /\ WrittenImage.datatype = "uint8"

\* C8: the written image's AnatomicalStructurePrimary is CortexLeft for
\* hemisphere L and CortexRight for hemisphere R, for every operation and
\* whatever the input file had there.
C8_AnatomicalStructure ==
  MathDone =>
    /\ inputs.hemisphere = <<"L">> => WrittenImage.anat = <<"CortexLeft">>
    /\ inputs.hemisphere = <<"R">> => WrittenImage.anat = <<"CortexRight">>
    /\ inputs.hemisphere \in {<<"L">>, <<"R">>}

C8_Witness ==
  /\ MathDone
  /\ inputs.hemisphere = <<"L">>
  /\ ReadImage.anat = <<"CortexRight">>
  /\ WrittenImage.anat = <<"CortexLeft">>

\* C9: the first data array's Name is <subject>_<hemisphere>_<metric>, with
\* the subject 'sub-XYZ' when subject_id is not given and the hemisphere in
\* its upper case.
C9_MapName ==
  MathDone =>
    WrittenImage.name =
      (IF inputs.subject_id = Undefined THEN <<"sub-XYZ">> ELSE inputs.subject_id)
        \o <<"_">> \o inputs.hemisphere \o <<"_">> \o inputs.metric

C9_Witness ==
  /\ MathDone
  /\ ~isdefined(inputs.subject_id)
  /\ WrittenImage.name = <<"sub-XYZ", "_", "L", "_", "thickness">>
  /\ results.metric_file = cwd \o <<"/", "l", "h", ".", "thickness", ".", "native",
                                    ".", "shape", ".", "gii">>

\* C10 (as claimed): for every combination of inputs the output path
\* differs from the input path and the input file is the same after the run
\* as before it.
C10_InputNeverOverwritten ==
  MathDone =>
    /\ results.metric_file # inputs.metric_file
    /\ fs[inputs.metric_file] = fs0[inputs.metric_file]

\* C10 (amended): MetricMath reads its input once and writes once; the
\* output path differs from the input path and the input file is unchanged
\* unless the input is itself the file
\* <cwd>/<hemisphere-lowercase>h.<metric>.native.shape.gii, which the run
\* then overwrites with its result.
C10_InputOverwrittenOnlyOnCollision ==
  MathDone =>
    /\ nreads = 1
    /\ nwrites = 1
    /\ inputs.metric_file # NativeShapePath =>
         /\ results.metric_file # inputs.metric_file
         /\ fs[inputs.metric_file] = fs0[inputs.metric_file]
    /\ inputs.metric_file = NativeShapePath =>
         /\ results.metric_file = inputs.metric_file
         /\ fs[inputs.metric_file].name # fs0[inputs.metric_file].name

C10_Witness ==
  /\ MathDone
  /\ inputs.metric_file = EarlierOutput(cwd)
  /\ inputs.metric = <<"sulc">>
  /\ results.metric_file # inputs.metric_file
  /\ fs[inputs.metric_file] = fs0[inputs.metric_file]

====
